---- MODULE Spec2Model ----
(***************************************************************************)
(* A model of gomerkle: the balanced Merkle tree (NewMt / Prove / Verify), *)
(* the Merkle mountain range (NewMmr / Insert / merge_peaks) and the       *)
(* sparse Merkle tree (NewSmt / Prove / ProveNonIncl / SmtVerifyNonIncl).  *)
(*                                                                         *)
(* Byte strings are sequences of integers.  sha256.Sum256 is an ideal      *)
(* (collision-free) hash: on the items listed in `sha` its value is the    *)
(* digest `sha` assigns (a big-endian sequence of DIGEST_SIZE bytes, so    *)
(* that the sparse tree can compare it and read its bits); on every other  *)
(* byte string s it is the term <<-1>> \o s \o <<-2>>, which is injective  *)
(* and never equal to an assigned digest.  An item may itself be the       *)
(* concatenation of two digests: the code hashes leaves and inner nodes    *)
(* with the same function.                                                 *)
(***************************************************************************)
EXTENDS Integers, Sequences, FiniteSets, TLC

\* ------------------------------------------------------------ bounds
\* Bytes in a digest (32 in the source) and bits in a byte (8 in the source),
\* scaled so that the sparse tree has DigestBytes * ByteBits levels.
DigestBytes == 2
ByteBits == 2
\* Raw items <<1>> .. <<NumItems>> of the Merkle tree, longest list given to NewMt.
NumItems == 2
MaxLen == 4
\* Mountain range: most items given to NewMmr, most items of one Insert, most
\* items in all.
MaxInit == 6
MaxIns == 3
MaxTotal == 12
\* Sparse tree: raw items <<1>> .. <<NumSmtItems>>, longest list given to NewSmt.
NumSmtItems == 2
MaxSmtLen == 2

VARIABLES
    sha,        \* the hash function on raw items: item -> digest bytes
    mt_data,    \* the item list NewMt was called with
    mt_tree,    \* the *MerkleTree it returned (Nil for a nil pointer)
    mt_item,    \* the item given to Prove and Verify
    mt_proof,   \* the MerkleProof in hand (hashes, left)
    mt_tamper,  \* what was changed in the proof since Prove: kind and index
    mt_res,     \* what Verify returned
    mt_pc,      \* "built", "proved", "panic" (Prove aborted), "absent" (Prove
                \* returned nil), "verified"
    mmr_peaks,  \* mmr.peaks: the sequence of *MerkleTree
    mmr_n,      \* the number of items NewMmr was given
    mmr_hist,   \* the number of items of each Insert call so far
    mmr_pc,     \* "idle", "merging" (inside Insert), "panic"
    smt_data,   \* the item list NewSmt was called with
    smt_tree,   \* the *SparseMerkleTree it returned
    smt_item,   \* the item given to Prove or ProveNonIncl
    smt_kind,   \* "incl" after Prove, "nonincl" after ProveNonIncl
    smt_proof,  \* the SparseMerkleProof returned
    smt_vitem,  \* the item given to Verify or SmtVerifyNonIncl
    smt_res,    \* what it returned
    smt_pc      \* "built", "proved", "panic" (the call aborted), "absent"
                \* (the call returned nil), "verified"

mtVars == <<mt_data, mt_tree, mt_item, mt_proof, mt_tamper, mt_res, mt_pc>>
mmrVars == <<mmr_peaks, mmr_n, mmr_hist, mmr_pc>>
smtVars == <<smt_data, smt_tree, smt_item, smt_kind, smt_proof, smt_vitem,
             smt_res, smt_pc>>
vars == <<sha, mtVars, mmrVars, smtVars>>

\* ------------------------------------------------------------ hashing
DIGEST_SIZE == DigestBytes

\* A nil pointer.
Nil == [nil |-> TRUE]

\* No raw item has an assigned digest: every hash is a term.
EmptySha == [s \in {} |-> <<>>]

Sum256(s) == IF s \in DOMAIN sha THEN sha[s] ELSE <<-1>> \o s \o <<-2>>

\* ------------------------------------------------------------ Merkle tree
merkle_node(d, l, r) == [data |-> d, left |-> l, right |-> r]

MerkleTree(root) == [root |-> root]

MerkleProof(hashes, left) == [hashes |-> hashes, left |-> left]

IsLeaf(root) == root.left = Nil /\ root.right = Nil

RECURSIVE NewMt(_)
NewMt(data) ==
    IF Len(data) = 0 THEN Nil
    ELSE IF Len(data) = 1
    THEN MerkleTree(merkle_node(Sum256(data[1]), Nil, Nil))
    ELSE LET half == Len(data) \div 2
             left == NewMt(SubSeq(data, 1, half))
             right == NewMt(SubSeq(data, half + 1, Len(data)))
             root_data == Sum256(left.root.data \o right.root.data)
         IN  MerkleTree(merkle_node(root_data, left.root, right.root))

\* The path from the leaf holding the item's hash up to root, leaf first;
\* <<>> is Go's nil slice.
RECURSIVE search(_, _)
search(root, item) ==
    IF IsLeaf(root)
    THEN IF root.data = Sum256(item) THEN <<root>> ELSE <<>>
    ELSE LET left == search(root.left, item)
             right == search(root.right, item)
         IN  IF left # <<>> THEN Append(left, root)
             ELSE IF right # <<>> THEN Append(right, root)
             ELSE <<>>

RECURSIVE size(_)
size(root) ==
    IF IsLeaf(root) THEN 1 ELSE size(root.left) + size(root.right)

\* The loop of Prove: i is the (1-based) index into path of the next node.
RECURSIVE ProveLoop(_, _, _, _, _)
ProveLoop(path, i, node, hashes, left) ==
    IF i < 1 THEN MerkleProof(hashes, left)
    ELSE LET curr_node == path[i]
         IN  IF node.left.data = curr_node.data
             THEN ProveLoop(path, i - 1, curr_node,
                            Append(hashes, node.right.data), Append(left, FALSE))
             ELSE IF node.right.data = curr_node.data
             THEN ProveLoop(path, i - 1, curr_node,
                            Append(hashes, node.left.data), Append(left, TRUE))
             ELSE ProveLoop(path, i - 1, curr_node, hashes, left)

\* [status, proof]: "panic" is the run-time panic of path[len(path)-1] on the
\* nil path (or of tree.root on a nil tree).
Prove(tree, item) ==
    IF tree = Nil THEN [status |-> "panic", proof |-> MerkleProof(<<>>, <<>>)]
    ELSE LET path == search(tree.root, item)
         IN  IF Len(path) = 0
             THEN [status |-> "panic", proof |-> MerkleProof(<<>>, <<>>)]
             ELSE [status |-> "ok",
                   proof |-> ProveLoop(path, Len(path) - 1, path[Len(path)],
                                       <<>>, <<>>)]

\* Verify with the two operands of each step exchanged.
RECURSIVE VerifyLoopSwapped(_, _, _)
VerifyLoopSwapped(proof, i, acc) ==
    IF i < 1 THEN acc
    ELSE IF proof.left[i]
    THEN VerifyLoopSwapped(proof, i - 1, Sum256(acc \o proof.hashes[i]))
    ELSE VerifyLoopSwapped(proof, i - 1, Sum256(proof.hashes[i] \o acc))

\* Verify that does not read the side-bits.
RECURSIVE VerifyLoopNoSide(_, _, _)
VerifyLoopNoSide(proof, i, acc) ==
    IF i < 1 THEN acc
    ELSE VerifyLoopNoSide(proof, i - 1, Sum256(acc \o proof.hashes[i]))

\* The accumulator of Verify after the steps i, i-1, .., 1 (1-based).
RECURSIVE VerifyLoop(_, _, _)
VerifyLoop(proof, i, acc) ==
    IF i < 1 THEN acc
    ELSE IF proof.left[i]
    THEN VerifyLoop(proof, i - 1, Sum256(proof.hashes[i] \o acc))
    ELSE VerifyLoop(proof, i - 1, Sum256(acc \o proof.hashes[i]))

Verify(proof, root, item) ==
    VerifyLoop(proof, Len(proof.hashes), Sum256(item)) = root

Root(tree) == tree.root.data

\* ------------------------------------------------------------ Merkle tree: the machine
\* Where a caller stands after a call that returned a proof ("ok"), returned
\* nil ("nil") or aborted ("panic").
PcAfter(status) ==
    CASE status = "ok" -> "proved"
      [] status = "nil" -> "absent"
      [] OTHER -> "panic"

RawItems == {<<i>> : i \in 1..NumItems}

\* A 2 * DIGEST_SIZE-byte item: the two digests an inner node hashes.
PairItem == Sum256(<<1>>) \o Sum256(<<2>>)

MtItems == RawItems \cup {PairItem}

SeqsUpTo(S, n) == UNION {[1..k -> S] : k \in 0..n}

RECURSIVE Digests(_)
Digests(root) ==
    IF root = Nil THEN {}
    ELSE {root.data} \cup Digests(root.left) \cup Digests(root.right)

\* The digests a changed proof step may hold.
OtherDigests == {Sum256(it) : it \in MtItems} \cup {Sum256(<<0>>)}
                    \cup (IF mt_tree = Nil THEN {} ELSE Digests(mt_tree.root))

NoTamper == [kind |-> "none", idx |-> 0]

\* The structures a specification does not exercise stay unbuilt.
MtUnused ==
    /\ mt_data = <<>>
    /\ mt_tree = Nil
    /\ mt_item = <<>>
    /\ mt_proof = MerkleProof(<<>>, <<>>)
    /\ mt_tamper = NoTamper
    /\ mt_res = FALSE
    /\ mt_pc = "unused"

MmrUnused ==
    /\ mmr_peaks = <<>>
    /\ mmr_n = 0
    /\ mmr_hist = <<>>
    /\ mmr_pc = "unused"

SmtUnused ==
    /\ smt_data = <<>>
    /\ smt_tree = Nil
    /\ smt_item = <<>>
    /\ smt_kind = "none"
    /\ smt_proof = MerkleProof(<<>>, <<>>)
    /\ smt_vitem = <<>>
    /\ smt_res = FALSE
    /\ smt_pc = "unused"

InitMt ==
    /\ sha = EmptySha
    /\ MmrUnused
    /\ SmtUnused
    /\ mt_data \in SeqsUpTo(MtItems, MaxLen)
    /\ mt_tree = NewMt(mt_data)
    /\ mt_item = <<>>
    /\ mt_proof = MerkleProof(<<>>, <<>>)
    /\ mt_tamper = NoTamper
    /\ mt_res = FALSE
    /\ mt_pc = "built"

MtProve(item) ==
    /\ mt_pc = "built"
    /\ LET r == Prove(mt_tree, item)
       IN  /\ mt_pc' = PcAfter(r.status)
           /\ mt_proof' = r.proof
    /\ mt_item' = item
    /\ UNCHANGED <<sha, mt_data, mt_tree, mt_tamper, mt_res, mmrVars, smtVars>>

\* The holder of the proof replaces one sibling digest by another digest.
MtChangeHash(i, d) ==
    /\ mt_pc = "proved"
    /\ mt_tamper = NoTamper
    /\ i \in 1..Len(mt_proof.hashes)
    /\ d # mt_proof.hashes[i]
    /\ mt_proof' = [mt_proof EXCEPT !.hashes[i] = d]
    /\ mt_tamper' = [kind |-> "hash", idx |-> i]
    /\ UNCHANGED <<sha, mt_data, mt_tree, mt_item, mt_res, mt_pc, mmrVars, smtVars>>

\* The holder of the proof flips one side-bit.
MtFlipSide(i) ==
    /\ mt_pc = "proved"
    /\ mt_tamper = NoTamper
    /\ i \in 1..Len(mt_proof.left)
    /\ mt_proof' = [mt_proof EXCEPT !.left[i] = ~mt_proof.left[i]]
    /\ mt_tamper' = [kind |-> "side", idx |-> i]
    /\ UNCHANGED <<sha, mt_data, mt_tree, mt_item, mt_res, mt_pc, mmrVars, smtVars>>

MtVerify ==
    /\ mt_pc = "proved"
    /\ mt_res' = Verify(mt_proof, Root(mt_tree), mt_item)
    /\ mt_pc' = "verified"
    /\ UNCHANGED <<sha, mt_data, mt_tree, mt_item, mt_proof, mt_tamper, mmrVars, smtVars>>

NextMt ==
    \/ \E item \in MtItems : MtProve(item)
    \/ \E i \in 1..MaxLen, d \in OtherDigests : MtChangeHash(i, d)
    \/ \E i \in 1..MaxLen : MtFlipSide(i)
    \/ MtVerify

SpecMt == InitMt /\ [][NextMt]_vars

\* ------------------------------------------------------------ Merkle tree: the claims
InList(item, data) == \E k \in 1..Len(data) : data[k] = item

Untampered == mt_tamper = NoTamper

\* C1: for every non-empty item list (duplicates allowed, a single item
\* included) and every item x of it, Prove(x) returns a proof and that proof
\* verifies: Verify(Root(), x) = TRUE.
C1_RoundTrip ==
    InList(mt_item, mt_data) =>
        /\ mt_pc # "panic"
        /\ (mt_pc = "verified" /\ Untampered) => mt_res = TRUE

\* A four-item list with a duplicate, its proof of two steps verified.
C1_Witness ==
    /\ mt_pc = "verified"
    /\ Untampered
    /\ Len(mt_data) = 4
    /\ mt_data[3] = mt_data[4]
    /\ mt_item = mt_data[4]
    /\ Len(mt_proof.hashes) = 2
    /\ mt_res = TRUE

\* The node of the proved path that the proof's step i pairs with its sibling
\* digest (step 1 is the step below the root).
PathNode(i) ==
    LET path == search(mt_tree.root, mt_item) IN path[Len(path) - i]

\* C2 as stated: a proof with one sibling digest changed to a different
\* digest, or with one side-bit flipped, is rejected by Verify(Root(), x).
C2_AnyChangeRejected ==
    (mt_pc = "verified" /\ ~Untampered) => mt_res = FALSE

\* C2 as amended: a proof with one sibling digest changed to a different
\* digest is rejected; a proof with one side-bit flipped is rejected when the
\* sibling digest of that step differs from the digest of the path node it is
\* hashed with.
C2_Rejection ==
    /\ (mt_pc = "verified" /\ mt_tamper.kind = "hash") => mt_res = FALSE
    /\ (/\ mt_pc = "verified"
        /\ mt_tamper.kind = "side"
        /\ mt_proof.hashes[mt_tamper.idx] # PathNode(mt_tamper.idx).data)
           => mt_res = FALSE

\* A side-bit of a step with two different digests was flipped and Verify ran.
C2_Witness ==
    /\ mt_pc = "verified"
    /\ mt_tamper.kind = "side"
    /\ mt_proof.hashes[mt_tamper.idx] # PathNode(mt_tamper.idx).data
    /\ Len(mt_proof.hashes) = 2
    /\ mt_res = FALSE

\* C6: Prove(x) on a tree none of whose leaf digests equals hash(x) returns
\* nil; it neither aborts nor returns a proof.
C6_AbsentReturnsNil ==
    (/\ mt_pc # "built"
     /\ mt_tree # Nil
     /\ \A k \in 1..Len(mt_data) : Sum256(mt_data[k]) # Sum256(mt_item))
        => mt_pc = "absent"

\* ------------------------------------------------------------ Merkle mountain range
\* n & (1 << i) != 0
BitSet(n, i) == (n \div (2 ^ i)) % 2 = 1

RECURSIVE FloorLog2(_)
FloorLog2(n) == IF n <= 1 THEN 0 ELSE 1 + FloorLog2(n \div 2)

\* int(math.Log2(float64(n))): for n = 0 the conversion of -Inf to int is
\* implementation-specific, so any start index is possible there.
Log2Int(n) == IF n = 0 THEN -1..MaxInit ELSE {FloorLog2(n)}

\* The loop of NewMmr from bit i downwards: n is the length of the input,
\* data what is left of it.
RECURSIVE NewMmrLoop(_, _, _, _)
NewMmrLoop(n, data, i, peaks) ==
    IF i < 0 THEN peaks
    ELSE IF BitSet(n, i)
    THEN LET items == SubSeq(data, 1, 2 ^ i)
             rest == SubSeq(data, 2 ^ i + 1, Len(data))
         IN  NewMmrLoop(n, rest, i - 1, Append(peaks, NewMt(items)))
    ELSE NewMmrLoop(n, data, i - 1, peaks)

NewMmr(data, i0) == NewMmrLoop(Len(data), data, i0, <<>>)

\* append(s[:k], s[k+1:]...) on a slice of length len over the array arr (k is
\* 0-based): the elements after k move down one slot in place; the slot that
\* held the last element keeps its old value.
RemoveAt(arr, len, k) ==
    [p \in 1..Len(arr) |-> IF p >= k + 1 /\ p <= len - 1 THEN arr[p + 1] ELSE arr[p]]

\* merge_peaks with the later peak as the left child.
MergeTreesSwapped(other, tree) ==
    LET new_tree_data == Sum256(tree.root.data \o other.root.data)
    IN  MerkleTree(merkle_node(new_tree_data, tree.root, other.root))

\* The tree merge_peaks builds from two peaks of one size (lines 68-74).
MergeTrees(other, tree) ==
    LET new_tree_data == Sum256(other.root.data \o tree.root.data)
    IN  MerkleTree(merkle_node(new_tree_data, other.root, tree.root))

\* One iteration of the range loop of merge_peaks, at index i (0-based).
\* st.arr is the backing array of mmr.peaks as long as the slice was when the
\* loop began (the loop reads its elements from the array), st.len the
\* current len(mmr.peaks), st.sizes the map size -> index, st.panic a
\* run-time panic (an index or a slice bound out of range).
RangeBody(st, i) ==
    LET tree == st.arr[i + 1]
        sz == size(tree.root)
    IN  IF sz \in DOMAIN st.sizes
        THEN LET j == st.sizes[sz]
             IN  IF j >= st.len \/ i + 1 > st.len \/ j + 1 > st.len - 1
                 THEN [st EXCEPT !.panic = TRUE]
                 ELSE LET other == st.arr[j + 1]
                          a1 == RemoveAt(st.arr, st.len, i)
                          a2 == RemoveAt(a1, st.len - 1, j)
                          a3 == [a2 EXCEPT ![st.len - 1] = MergeTrees(other, tree)]
                      IN  [arr |-> a3, len |-> st.len - 1, sizes |-> st.sizes,
                           merged |-> TRUE, panic |-> FALSE]
        ELSE [st EXCEPT !.sizes = (sz :> i) @@ st.sizes]

\* The range loop from index i to n, the length the slice had when the loop
\* began.  (st0 is bound to its value once, by the set it is drawn from.)
RECURSIVE RangePeaks(_, _, _)
RangePeaks(st0, i, n) ==
    CHOOSE r \in {IF i >= n \/ st.panic THEN st
                  ELSE RangePeaks(RangeBody(st, i), i + 1, n) : st \in {st0}} : TRUE

\* One pass of the outer loop of merge_peaks over the peaks.
MergePassOf(peaks) ==
    RangePeaks([arr |-> peaks, len |-> Len(peaks), sizes |-> <<>>,
                merged |-> FALSE, panic |-> FALSE], 0, Len(peaks))

\* merge_peaks that makes one pass only.
MergeOverAfterOnePass(st) == TRUE

\* if !merged { break }: the loop, and with it Insert, is over.
MergeOver(st) == ~st.merged

Peaks(peaks) == [k \in 1..Len(peaks) |-> peaks[k].root.data]

\* ------------------------------------------------------------ mountain range: the machine
\* The items are numbered in the order they enter the range.
ItemsFromTo(a, b) == [k \in 1..(b - a + 1) |-> <<a + k - 1>>]

RECURSIVE SumSeq(_)
SumSeq(s) == IF Len(s) = 0 THEN 0 ELSE s[1] + SumSeq(Tail(s))

MmrCount == mmr_n + SumSeq(mmr_hist)

InitMmr ==
    /\ sha = EmptySha
    /\ MtUnused
    /\ SmtUnused
    /\ mmr_n \in 0..MaxInit
    /\ \E i0 \in Log2Int(mmr_n) : mmr_peaks = NewMmr(ItemsFromTo(1, mmr_n), i0)
    /\ mmr_hist = <<>>
    /\ mmr_pc = "idle"

\* Insert up to the first call of merge_peaks.
MmrInsert(c) ==
    /\ mmr_pc = "idle"
    /\ MmrCount + c <= MaxTotal
    /\ LET items == ItemsFromTo(MmrCount + 1, MmrCount + c)
           new_tree == NewMt(items)
       IN  mmr_peaks' = Append(mmr_peaks, new_tree)
    /\ mmr_hist' = Append(mmr_hist, c)
    /\ mmr_pc' = "merging"
    /\ UNCHANGED <<sha, mtVars, smtVars, mmr_n>>

\* One pass of merge_peaks; after the pass that merges nothing merge_peaks
\* returns false and Insert returns.
MmrMergePass ==
    /\ mmr_pc = "merging"
    /\ LET st == MergePassOf(mmr_peaks)
       IN  /\ mmr_peaks' = SubSeq(st.arr, 1, st.len)
           /\ mmr_pc' = IF st.panic THEN "panic"
                        ELSE IF MergeOver(st) THEN "idle" ELSE "merging"
    /\ UNCHANGED <<sha, mtVars, smtVars, mmr_n, mmr_hist>>

NextMmr ==
    \/ \E c \in 1..MaxIns : MmrInsert(c)
    \/ MmrMergePass

SpecMmr == InitMmr /\ [][NextMmr]_vars

\* Insert runs to its end once called: the loop is not suspended for ever.
FairSpecMmr == SpecMmr /\ WF_vars(MmrMergePass)

PeakSizes == [k \in 1..Len(mmr_peaks) |-> size(mmr_peaks[k].root)]

DistinctSizes ==
    \A a, b \in 1..Len(mmr_peaks) : a # b => PeakSizes[a] # PeakSizes[b]

RECURSIVE LeavesOf(_)
LeavesOf(root) ==
    IF IsLeaf(root) THEN <<root.data>> ELSE LeavesOf(root.left) \o LeavesOf(root.right)

RECURSIVE PeakLeaves(_)
PeakLeaves(peaks) ==
    IF Len(peaks) = 0 THEN <<>> ELSE LeavesOf(peaks[1].root) \o PeakLeaves(Tail(peaks))

\* The powers of two of the set bits of n from bit i downwards.
RECURSIVE BinarySizes(_, _)
BinarySizes(n, i) ==
    IF i < 0 THEN <<>>
    ELSE IF BitSet(n, i) THEN <<2 ^ i>> \o BinarySizes(n, i - 1)
    ELSE BinarySizes(n, i - 1)

RECURSIVE IsPerfect(_)
IsPerfect(root) ==
    \/ IsLeaf(root)
    \/ /\ size(root.left) = size(root.right)
       /\ IsPerfect(root.left)
       /\ IsPerfect(root.right)

IsPowerOfTwo(n) == \E i \in 0..MaxTotal : n = 2 ^ i

SingleInserts == \A k \in 1..Len(mmr_hist) : mmr_hist[k] = 1

\* C3: after NewMmr and any sequence of Insert calls with non-empty item
\* lists, whenever Insert has returned no two peaks have the same leaf count;
\* Insert never aborts and its merge loop always terminates.
C3_MergeInvariant ==
    /\ [](mmr_pc = "idle" => DistinctSizes)
    /\ [](mmr_pc # "panic")
    /\ ((mmr_pc = "merging") ~> (mmr_pc = "idle"))

\* Insert calls of several sizes have returned, the last one after merging.
C3_Witness ==
    /\ mmr_pc = "idle"
    /\ Len(mmr_hist) >= 3
    /\ \E k \in 1..Len(mmr_hist) : mmr_hist[k] > 1
    /\ Len(mmr_peaks) >= 2
    /\ Len(mmr_peaks) < Len(mmr_hist)

\* C7: after NewMmr on n items and k Insert calls of one item each, the peak
\* leaf counts are the powers of two of the set bits of n + k, in strictly
\* decreasing order, and the peaks hold the items in their original order.
C7_BinaryCounter ==
    (mmr_pc = "idle" /\ SingleInserts) =>
        /\ PeakSizes = BinarySizes(MmrCount, FloorLog2(MmrCount))
        /\ PeakLeaves(mmr_peaks) = [k \in 1..MmrCount |-> Sum256(<<k>>)]

\* Five items, then three single inserts: the carries cascade into one peak.
C7_Witness ==
    /\ mmr_pc = "idle"
    /\ mmr_n = 5
    /\ mmr_hist = <<1, 1, 1>>
    /\ PeakSizes = <<8>>

\* C9: after NewMmr and any sequence of Insert calls with non-empty item
\* lists, every peak is a complete Merkle tree with a power-of-two leaf count.
C9_PeaksComplete ==
    mmr_pc = "idle" =>
        \A k \in 1..Len(mmr_peaks) :
            /\ IsPowerOfTwo(PeakSizes[k])
            /\ IsPerfect(mmr_peaks[k].root)

\* ------------------------------------------------------------ sparse Merkle tree
\* 8 * DIGEST_SIZE: the bits of a digest.
DigestBits == ByteBits * DIGEST_SIZE

\* The values of one byte are 0 .. ByteVals - 1.
ByteVals == 2 ^ ByteBits

\* big.Int.Bytes(): the big-endian bytes of n with no leading zero byte (none
\* at all for 0).
RECURSIVE BigBytes(_)
BigBytes(n) ==
    IF n = 0 THEN <<>> ELSE Append(BigBytes(n \div ByteVals), n % ByteVals)

\* bytes.Compare: lexicographic, a proper prefix being the smaller.
RECURSIVE BytesCompare(_, _)
BytesCompare(a, b) ==
    IF Len(a) = 0 /\ Len(b) = 0 THEN 0
    ELSE IF Len(a) = 0 THEN -1
    ELSE IF Len(b) = 0 THEN 1
    ELSE IF a[1] < b[1] THEN -1
    ELSE IF a[1] > b[1] THEN 1
    ELSE BytesCompare(Tail(a), Tail(b))

\* hash[i/8] & (1 << (7 - i%8)) != 0, i 0-based.
Bit(hash, i) ==
    (hash[(i \div ByteBits) + 1] \div (2 ^ (ByteBits - 1 - (i % ByteBits)))) % 2 = 1

RECURSIVE DefaultAt(_)
DefaultAt(i) ==
    IF i = 0 THEN Sum256(<<>>)
    ELSE LET prev == DefaultAt(i - 1) IN Sum256(prev \o prev)

compute_default_digests == [i \in 0..(DigestBits - 1) |-> DefaultAt(i)]

\* The zero value of [DIGEST_SIZE]byte.
ZeroDigest == [k \in 1..DIGEST_SIZE |-> 0]

\* default_digests[k]: a Go map yields the zero value for a key it lacks.
default_digests(k) ==
    IF k \in DOMAIN compute_default_digests
    THEN compute_default_digests[k] ELSE ZeroDigest

\* slices.SortFunc with bytes.Compare.
RECURSIVE InsertSorted(_, _)
InsertSorted(sorted, h) ==
    IF Len(sorted) = 0 THEN <<h>>
    ELSE IF BytesCompare(h, sorted[1]) <= 0 THEN <<h>> \o sorted
    ELSE <<sorted[1]>> \o InsertSorted(Tail(sorted), h)

RECURSIVE SortDigests(_)
SortDigests(hashed) ==
    IF Len(hashed) = 0 THEN <<>>
    ELSE InsertSorted(SortDigests(Tail(hashed)), hashed[1])

RECURSIVE new_smt_inner(_, _, _, _)
new_smt_inner(data, lo, hi, height) ==
    IF Len(data) = 0 THEN merkle_node(default_digests(height), Nil, Nil)
    ELSE IF height = 0 THEN merkle_node(data[1], Nil, Nil)
    ELSE LET mid == (lo + hi) \div 2
             left_data ==
                 SelectSeq(data, LAMBDA h : BytesCompare(h, BigBytes(mid)) <= 0)
             right_data ==
                 SelectSeq(data, LAMBDA h : ~(BytesCompare(h, BigBytes(mid)) <= 0))
             left_subtree == new_smt_inner(left_data, lo, mid, height - 1)
             right_subtree == new_smt_inner(right_data, mid, hi, height - 1)
             node_data == Sum256(left_subtree.data \o right_subtree.data)
         IN  merkle_node(node_data, left_subtree, right_subtree)

NewSmt(data) ==
    LET hashed_data == [i \in 1..Len(data) |-> Sum256(data[i])]
        hi == 2 ^ DigestBits - 1
    IN  [root |-> new_smt_inner(SortDigests(hashed_data), 0, hi, DigestBits - 1)]

SmtPanic == [status |-> "panic", proof |-> MerkleProof(<<>>, <<>>)]

\* The loop of SparseMerkleTree.Prove from step i (0-based); "panic" is the
\* dereference of a nil child.
RECURSIVE SmtProveLoop(_, _, _, _, _)
SmtProveLoop(hash, i, curr, hashes, left) ==
    IF i >= DigestBits - 1
    THEN [status |-> "ok", proof |-> MerkleProof(hashes, left)]
    ELSE IF curr = Nil THEN SmtPanic
    ELSE IF Bit(hash, i)
    THEN IF curr.left = Nil THEN SmtPanic
         ELSE SmtProveLoop(hash, i + 1, curr.right,
                           Append(hashes, curr.left.data), Append(left, TRUE))
    ELSE IF curr.right = Nil THEN SmtPanic
         ELSE SmtProveLoop(hash, i + 1, curr.left,
                           Append(hashes, curr.right.data), Append(left, FALSE))

SmtProve(tree, item) == SmtProveLoop(Sum256(item), 0, tree.root, <<>>, <<>>)

\* SparseMerkleProof.Verify: the steps 8*DIGEST_SIZE-2 .. 0; a shorter proof
\* is an index out of range.
SmtVerify(proof, root, item) ==
    IF Len(proof.hashes) < DigestBits - 1 \/ Len(proof.left) < DigestBits - 1
    THEN "panic"
    ELSE IF VerifyLoop(proof, DigestBits - 1, Sum256(item)) = root
    THEN "true" ELSE "false"

\* The first loop of ProveNonIncl from step i (0-based): it stops at a node
\* without the child it looks at.
RECURSIVE NonInclWalk(_, _, _, _, _)
NonInclWalk(hash, i, curr, hashes, left) ==
    IF i >= DigestBits - 1 THEN MerkleProof(hashes, left)
    ELSE IF Bit(hash, i)
    THEN IF curr.left = Nil THEN MerkleProof(hashes, left)
         ELSE NonInclWalk(hash, i + 1, curr.right,
                          Append(hashes, curr.left.data), Append(left, TRUE))
    ELSE IF curr.right = Nil THEN MerkleProof(hashes, left)
         ELSE NonInclWalk(hash, i + 1, curr.left,
                          Append(hashes, curr.right.data), Append(left, FALSE))

\* The second loop of ProveNonIncl from j downwards.
RECURSIVE NonInclPad(_, _, _, _)
NonInclPad(hash, j, hashes, left) ==
    IF j < 0 THEN MerkleProof(hashes, left)
    ELSE LET i == (DigestBits - 1) - j
         IN  NonInclPad(hash, j - 1, Append(hashes, default_digests(j - 1)),
                        Append(left, Bit(hash, i)))

ProveNonIncl(tree, item) ==
    LET hash == Sum256(item)
        walked == NonInclWalk(hash, 0, tree.root, <<>>, <<>>)
    IN  IF Len(walked.hashes) >= DigestBits - 1
        THEN [status |-> "nil", proof |-> MerkleProof(<<>>, <<>>)]
        ELSE [status |-> "ok",
              proof |-> NonInclPad(hash, DigestBits - 1 - Len(walked.hashes),
                                   walked.hashes, walked.left)]

\* SmtVerifyNonIncl: item is not read.
SmtVerifyNonIncl(proof, root, item) ==
    IF Len(proof.hashes) < DigestBits - 1 \/ Len(proof.left) < DigestBits - 1
    THEN "panic"
    ELSE IF VerifyLoop(proof, DigestBits - 1, default_digests(0)) = root
    THEN "true" ELSE "false"

SmtRoot(tree) == tree.root.data

\* ------------------------------------------------------------ sparse tree: the machine
SmtItems == {<<i>> : i \in 1..NumSmtItems}

AllDigests == [1..DIGEST_SIZE -> 0..(ByteVals - 1)]

\* The hash is any collision-free assignment of digests to the items.
HashFunctions ==
    {f \in [SmtItems -> AllDigests] : \A a, b \in SmtItems : a # b => f[a] # f[b]}

InitSmt ==
    /\ sha \in HashFunctions
    /\ MtUnused
    /\ MmrUnused
    /\ smt_data \in SeqsUpTo(SmtItems, MaxSmtLen)
    /\ smt_tree = NewSmt(smt_data)
    /\ smt_item = <<>>
    /\ smt_kind = "none"
    /\ smt_proof = MerkleProof(<<>>, <<>>)
    /\ smt_vitem = <<>>
    /\ smt_res = FALSE
    /\ smt_pc = "built"

SmtCallProve(item) ==
    /\ smt_pc = "built"
    /\ LET r == SmtProve(smt_tree, item)
       IN  /\ smt_pc' = PcAfter(r.status)
           /\ smt_proof' = r.proof
    /\ smt_item' = item
    /\ smt_kind' = "incl"
    /\ UNCHANGED <<sha, mtVars, mmrVars, smt_data, smt_tree, smt_vitem, smt_res>>

SmtCallProveNonIncl(item) ==
    /\ smt_pc = "built"
    /\ LET r == ProveNonIncl(smt_tree, item)
       IN  /\ smt_pc' = PcAfter(r.status)
           /\ smt_proof' = r.proof
    /\ smt_item' = item
    /\ smt_kind' = "nonincl"
    /\ UNCHANGED <<sha, mtVars, mmrVars, smt_data, smt_tree, smt_vitem, smt_res>>

SmtCallVerify(item) ==
    /\ smt_pc = "proved"
    /\ smt_kind = "incl"
    /\ LET r == SmtVerify(smt_proof, SmtRoot(smt_tree), item)
       IN  /\ smt_pc' = IF r = "panic" THEN "panic" ELSE "verified"
           /\ smt_res' = (r = "true")
    /\ smt_vitem' = item
    /\ UNCHANGED <<sha, mtVars, mmrVars, smt_data, smt_tree, smt_item, smt_kind,
                   smt_proof>>

SmtCallVerifyNonIncl(item) ==
    /\ smt_pc = "proved"
    /\ smt_kind = "nonincl"
    /\ LET r == SmtVerifyNonIncl(smt_proof, SmtRoot(smt_tree), item)
       IN  /\ smt_pc' = IF r = "panic" THEN "panic" ELSE "verified"
           /\ smt_res' = (r = "true")
    /\ smt_vitem' = item
    /\ UNCHANGED <<sha, mtVars, mmrVars, smt_data, smt_tree, smt_item, smt_kind,
                   smt_proof>>

NextSmt ==
    \/ \E item \in SmtItems : SmtCallProve(item)
    \/ \E item \in SmtItems : SmtCallProveNonIncl(item)
    \/ \E item \in SmtItems : SmtCallVerify(item)
    \/ \E item \in SmtItems : SmtCallVerifyNonIncl(item)

SpecSmt == InitSmt /\ [][NextSmt]_vars

\* ------------------------------------------------------------ sparse tree: the claims
\* The items of the list have pairwise distinct hashes.
DistinctHashes(data) ==
    \A a, b \in 1..Len(data) : a # b => Sum256(data[a]) # Sum256(data[b])

\* C4: for any item list and any item x not in it, ProveNonIncl(x) returns a
\* proof and SmtVerifyNonIncl(proof, Root(), x) returns true.
C4_NonInclusionComplete ==
    (smt_kind = "nonincl" /\ ~InList(smt_item, smt_data)) =>
        /\ smt_pc \notin {"absent", "panic"}
        /\ (smt_pc = "verified" /\ smt_vitem = smt_item) => smt_res = TRUE

\* C5: for an item list with pairwise distinct hashes and any item x in it,
\* ProveNonIncl(x) returns nil.
C5_PresentIsAbsent ==
    (/\ smt_kind = "nonincl"
     /\ DistinctHashes(smt_data)
     /\ InList(smt_item, smt_data)) => smt_pc = "absent"

\* C8: for an item list with pairwise distinct hashes and any item x in it,
\* Prove(x) returns a proof of exactly H = 8*DIGEST_SIZE-1 steps and
\* Verify(proof, Root(), x) returns true.
C8_InclusionRoundTrip ==
    (/\ smt_kind = "incl"
     /\ DistinctHashes(smt_data)
     /\ InList(smt_item, smt_data)) =>
        /\ smt_pc # "panic"
        /\ Len(smt_proof.hashes) = DigestBits - 1
        /\ (smt_pc = "verified" /\ smt_vitem = smt_item) => smt_res = TRUE

\* C10: a proof returned by ProveNonIncl(y) is not accepted by
\* SmtVerifyNonIncl(p, Root(), x) for any item x of the list.
C10_BoundToItem ==
    (/\ smt_kind = "nonincl"
     /\ smt_pc = "verified"
     /\ InList(smt_vitem, smt_data)) => smt_res = FALSE

====
